---- MODULE Spec2Model ----
(***************************************************************************)
(* Model of the two programs of the repository:                            *)
(*   mapreduce_url_topwords.py : chunk_text, the thread-pool map phase,    *)
(*       shuffle, reduce, the normalizer and the top-N selection;          *)
(*   async_file_sorter.py      : read_folder and its copy_file tasks.      *)
(* A text is a sequence of one-character strings; a word is such a         *)
(* sequence too.  A Python dict / Counter is a sequence of <<key, value>>  *)
(* pairs in insertion order.  Only ASCII characters are modelled: the      *)
(* Cyrillic letters of WORD_RE and the Cyrillic stop words cannot occur in *)
(* a text over the ASCII characters used here.                             *)
(***************************************************************************)
EXTENDS Naturals, Sequences, FiniteSets

(* ---------------- bounds of the model ---------------- *)
MaxLen == 4
MaxWorkers == 2
MaxMinLen == 2
MaxTopN == 2
MaxFiles == 3

(* the characters a generated text is made of: a lower-case letter that is *)
(* a stop word on its own, an upper-case letter, white space, punctuation  *)
Alphabet == {"a", "B", " ", ","}

Min(a, b) == IF a <= b THEN a ELSE b
Max(a, b) == IF a >= b THEN a ELSE b

RECURSIVE SeqsUpTo(_)
SeqsUpTo(n) ==
  IF n = 0 THEN {<<>>}
  ELSE LET S == SeqsUpTo(n - 1)
       IN  S \cup {Append(s, c) : s \in {t \in S : Len(t) = n - 1}, c \in Alphabet}

(* the example text of the specification: "the cat sat on the mat the cat ran" *)
ExampleText ==
  <<"t","h","e"," ","c","a","t"," ","s","a","t"," ","o","n"," ",
    "t","h","e"," ","m","a","t"," ","t","h","e"," ","c","a","t"," ","r","a","n">>

Texts == SeqsUpTo(MaxLen) \cup {ExampleText}

(* ---------------- characters ---------------- *)
UpperCase == <<"A","B","C","D","E","F","G","H","I","J","K","L","M",
               "N","O","P","Q","R","S","T","U","V","W","X","Y","Z">>
LowerCase == <<"a","b","c","d","e","f","g","h","i","j","k","l","m",
               "n","o","p","q","r","s","t","u","v","w","x","y","z">>
Digits == {"0","1","2","3","4","5","6","7","8","9"}

(* str.split() with no argument splits on runs of white space *)
Whitespace == {" ", "\t", "\n", "\r"}

(* WORD_RE = [a-zA-Z...0-9']+ *)
WORD_RE == {UpperCase[i] : i \in 1..26} \cup {LowerCase[i] : i \in 1..26}
             \cup Digits \cup {"'"}

(* str.lower() on one character *)
lower(c) ==
  IF \E i \in 1..26 : UpperCase[i] = c
  THEN LowerCase[CHOOSE i \in 1..26 : UpperCase[i] = c]
  ELSE c

DEFAULT_STOPWORDS ==
  { <<"t","h","e">>, <<"a","n","d">>, <<"a">>, <<"a","n">>, <<"o","f">>,
    <<"t","o">>, <<"i","n">>, <<"o","n">>, <<"i","s">>, <<"i","t">>,
    <<"t","h","a","t">>, <<"t","h","i","s">> }

(* ---------------- pure functions of mapreduce_url_topwords.py ---------------- *)

(* the maximal runs of characters of s that are not in seps, in order *)
RECURSIVE Runs(_, _, _, _)
Runs(s, seps, i, cur) ==
  IF i > Len(s) THEN (IF cur = <<>> THEN <<>> ELSE <<cur>>)
  ELSE IF s[i] \in seps
       THEN (IF cur = <<>> THEN <<>> ELSE <<cur>>) \o Runs(s, seps, i + 1, <<>>)
       ELSE Runs(s, seps, i + 1, Append(cur, s[i]))

(* text.split() *)
split(s) == Runs(s, Whitespace, 1, <<>>)

(* tokenize: every match of WORD_RE, lower-cased *)
tokenize(word) ==
  LET nonword == {word[i] : i \in 1..Len(word)} \ WORD_RE
      ms == Runs(word, nonword, 1, <<>>)
  IN  [k \in 1..Len(ms) |-> [j \in 1..Len(ms[k]) |-> lower(ms[k][j])]]

(* map_function: (word, 1) for every white-space separated word *)
map_function(chunk) ==
  LET words == split(chunk)
  IN  [i \in 1..Len(words) |-> <<words[i], 1>>]

Keys(d) == {d[i][1] : i \in 1..Len(d)}
IndexOf(d, k) == CHOOSE i \in 1..Len(d) : d[i][1] = k

(* shuffled[key].append(value) on a defaultdict(list) *)
ShuffleAppend(d, key, value) ==
  IF key \in Keys(d)
  THEN [d EXCEPT ![IndexOf(d, key)] = <<key, Append(@[2], value)>>]
  ELSE Append(d, <<key, <<value>> >>)

RECURSIVE ShuffleFrom(_, _, _)
ShuffleFrom(mapped, i, d) ==
  IF i > Len(mapped) THEN d
  ELSE ShuffleFrom(mapped, i + 1, ShuffleAppend(d, mapped[i][1], mapped[i][2]))

shuffle_function(mapped_values) == ShuffleFrom(mapped_values, 1, <<>>)

RECURSIVE SumSeq(_)
SumSeq(vs) == IF vs = <<>> THEN 0 ELSE Head(vs) + SumSeq(Tail(vs))

(* reduce_function: reduced[key] = sum(values); the keys are distinct *)
reduce_function(shuffled_values) ==
  [i \in 1..Len(shuffled_values) |->
     <<shuffled_values[i][1], SumSeq(shuffled_values[i][2])>>]

(* chunk_text with the remainder dropped: exactly `chunks` slices of `step` *)
chunk_text_dropping(t, chunks) ==
  IF chunks <= 1 THEN <<t>>
  ELSE LET n == Len(t)
           step == Max(1, n \div chunks)
       IN  [j \in 1..Min(chunks, n) |->
              SubSeq(t, (j - 1) * step + 1, Min(n, j * step))]

(* chunk_text with slices one character too long: neighbours overlap *)
chunk_text_overlapping(t, chunks) ==
  IF chunks <= 1 THEN <<t>>
  ELSE LET n == Len(t)
           step == Max(1, n \div chunks)
           cnt == (n + step - 1) \div step
       IN  [j \in 1..cnt |->
              SubSeq(t, (j - 1) * step + 1, Min(n, j * step + 1))]

(* chunk_text: [text[i : min(n, i + step)] for i in range(0, n, step)] *)
chunk_text(t, chunks) ==
  IF chunks <= 1 THEN <<t>>
  ELSE LET n == Len(t)
           step == Max(1, n \div chunks)
           cnt == (n + step - 1) \div step      \* len(range(0, n, step))
       IN  [j \in 1..cnt |->
              SubSeq(t, (j - 1) * step + 1, Min(n, (j - 1) * step + step))]

(* normalized[t] += cnt on a Counter, with cnt added twice *)
CounterAddTwice(d, t, cnt) ==
  IF t \in Keys(d)
  THEN [d EXCEPT ![IndexOf(d, t)] = <<t, @[2] + cnt + cnt>>]
  ELSE Append(d, <<t, cnt + cnt>>)

(* normalized[t] += cnt on a Counter *)
CounterAdd(d, t, cnt) ==
  IF t \in Keys(d)
  THEN [d EXCEPT ![IndexOf(d, t)] = <<t, @[2] + cnt>>]
  ELSE Append(d, <<t, cnt>>)

(* the inner loop: for t in toks: if len(t) >= min_len and t not in stop *)
RECURSIVE NormalizeToks(_, _, _, _, _, _)
NormalizeToks(d, toks, j, cnt, ml, stop) ==
  IF j > Len(toks) THEN d
  ELSE NormalizeToks(
         IF Len(toks[j]) >= ml /\ toks[j] \notin stop
         THEN CounterAdd(d, toks[j], cnt) ELSE d,
         toks, j + 1, cnt, ml, stop)

(* the outer loop: for word, cnt in reduced.items() *)
RECURSIVE NormalizeFrom(_, _, _, _, _)
NormalizeFrom(red, i, d, ml, stop) ==
  IF i > Len(red) THEN d
  ELSE NormalizeFrom(red, i + 1,
         NormalizeToks(d, tokenize(red[i][1]), 1, red[i][2], ml, stop), ml, stop)

(* step 4 of map_reduce_parallel *)
normalize(red, ml, sw) ==
  NormalizeFrom(red, 1, <<>>, ml, IF sw THEN DEFAULT_STOPWORDS ELSE {})

(* sorted(items, key=count, reverse=True) that puts a new item before its equals *)
InsertUnstable(sorted, item) ==
  LET before == Cardinality({i \in 1..Len(sorted) : sorted[i][2] > item[2]})
  IN  SubSeq(sorted, 1, before) \o <<item>> \o SubSeq(sorted, before + 1, Len(sorted))

(* a stable sort by descending count: an item goes after every item whose  *)
(* count is greater than or equal to its own                               *)
InsertStable(sorted, item) ==
  LET before == Cardinality({i \in 1..Len(sorted) : sorted[i][2] >= item[2]})
  IN  SubSeq(sorted, 1, before) \o <<item>> \o SubSeq(sorted, before + 1, Len(sorted))

RECURSIVE SortFrom(_, _, _)
SortFrom(items, i, sorted) ==
  IF i > Len(items) THEN sorted
  ELSE SortFrom(items, i + 1, InsertStable(sorted, items[i]))

(* Counter.most_common(n) for n >= 0: the first n of the stable descending sort *)
most_common(freq, n) ==
  LET s == SortFrom(freq, 1, <<>>)
  IN  SubSeq(s, 1, Min(n, Len(s)))

(* visualize_top_words: `if not top` logs "no data" and returns, else draws *)
ReportAlwaysChart(t) == "chart"

ReportOf(t) == IF t = <<>> THEN "no_data" ELSE "chart"

RECURSIVE Concat(_)
Concat(ss) == IF ss = <<>> THEN <<>> ELSE Head(ss) \o Concat(Tail(ss))

(* mapped_all after the map phase: the mapper outputs in chunk order *)
MappedInOrder(ps) == Concat([i \in 1..Len(ps) |-> map_function(ps[i])])

(* map_reduce_parallel as a function of its arguments *)
map_reduce_parallel(t, w, ml, sw) ==
  normalize(reduce_function(shuffle_function(MappedInOrder(chunk_text(t, w)))), ml, sw)

(* ---------------- state ---------------- *)
VARIABLES
  text, workers, min_len, use_stopwords,   \* arguments of map_reduce_parallel
  pc,                                      \* position of the main thread
  parts,                                   \* chunk_text(text, workers)
  status,                                  \* per chunk: state of its future
  results,                                 \* per chunk: the mapper's output
  mapCount,                                \* per chunk: calls of map_function
  collected,                               \* chunks whose result the loop consumed
  mapped_all, shuffled, reduced, normalized,
  top_n, top, report,                      \* visualize_top_words
  files, unreadable, sem, cpc, dest, dirs, \* async_file_sorter
  res, ok, err, rpc

pipeVars == <<text, workers, min_len, use_stopwords, pc, parts, status, results,
              mapCount, collected, mapped_all, shuffled, reduced, normalized,
              top_n, top, report>>
sortVars == <<files, unreadable, sem, cpc, dest, dirs, res, ok, err, rpc>>
vars == <<pipeVars, sortVars>>

Chunks == DOMAIN status
Running == {i \in Chunks : status[i] = "running"}
Pending == {i \in Chunks : status[i] = "pending"}

(* ThreadPoolExecutor with no limit on its threads *)
HasIdleWorkerUnbounded(st, w) == TRUE

(* ThreadPoolExecutor(max_workers=workers): a queued item starts only when *)
(* fewer than max_workers threads are busy                                 *)
HasIdleWorker(st, w) ==
  Cardinality({i \in DOMAIN st : st[i] = "running"}) < w

(* results handed over in completion order (as_completed) *)
ReadyAsCompleted(st, coll) ==
  {i \in DOMAIN st : i \notin coll /\ st[i] \in {"done", "failed"}}

(* pool.map yields the results in submission order: the next one is the    *)
(* lowest chunk not yet consumed, once its future has finished             *)
ReadyInOrder(st, coll) ==
  {i \in DOMAIN st : /\ i \notin coll
                     /\ st[i] \in {"done", "failed"}
                     /\ \A j \in DOMAIN st : j < i => j \in coll}

(* a result that swallows the mapper's exception *)
RaisesNever(st, i) == FALSE

(* future.result() re-raises the exception of a failed mapper *)
Raises(st, i) == st[i] = "failed"

(* ---------------- the idle state of each program ---------------- *)
PipeIdle ==
  /\ text = <<>> /\ workers = 1 /\ min_len = 0 /\ use_stopwords = FALSE
  /\ pc = "idle" /\ parts = <<>> /\ status = <<>> /\ results = <<>>
  /\ mapCount = <<>> /\ collected = {} /\ mapped_all = <<>> /\ shuffled = <<>>
  /\ reduced = <<>> /\ normalized = <<>> /\ top_n = 0 /\ top = <<>>
  /\ report = "none"

SortIdle ==
  /\ files = {} /\ unreadable = {} /\ sem = 0 /\ cpc = <<>> /\ dest = <<>>
  /\ dirs = {} /\ res = <<>> /\ ok = 0 /\ err = 0 /\ rpc = "idle"

(* ---------------- map_reduce_parallel ---------------- *)
PipeInit ==
  /\ text \in Texts
  /\ workers \in 1..MaxWorkers
  /\ min_len \in 0..MaxMinLen
  /\ use_stopwords \in BOOLEAN
  /\ pc = "start"
  /\ parts = <<>> /\ status = <<>> /\ results = <<>> /\ mapCount = <<>>
  /\ collected = {} /\ mapped_all = <<>> /\ shuffled = <<>> /\ reduced = <<>>
  /\ normalized = <<>>
  /\ top_n = 0 /\ top = <<>> /\ report = "none"

(* lines 134-139: chunk the text, create the pool, pool.map submits every chunk *)
Submit ==
  /\ pc = "start"
  /\ parts' = chunk_text(text, workers)
  /\ status' = [i \in 1..Len(parts') |-> "pending"]
  /\ results' = [i \in 1..Len(parts') |-> <<>>]
  /\ mapCount' = [i \in 1..Len(parts') |-> 0]
  /\ pc' = "map"
  /\ UNCHANGED <<text, workers, min_len, use_stopwords, collected, mapped_all,
                 shuffled, reduced, normalized, top_n, top, report>>

(* a pool thread takes the oldest queued work item and starts map_function *)
TaskStart ==
  /\ pc \in {"map", "aborting"}
  /\ Pending # {}
  /\ HasIdleWorker(status, workers)
  /\ LET i == CHOOSE k \in Pending : \A j \in Pending : k <= j
     IN  /\ status' = [status EXCEPT ![i] = "running"]
         /\ mapCount' = [mapCount EXCEPT ![i] = @ + 1]
  /\ UNCHANGED <<text, workers, min_len, use_stopwords, pc, parts, results,
                 collected, mapped_all, shuffled, reduced, normalized,
                 top_n, top, report>>

(* map_function returns: the future gets its result *)
TaskFinish ==
  /\ pc \in {"map", "aborting"}
  /\ \E i \in Running :
       /\ status' = [status EXCEPT ![i] = "done"]
       /\ results' = [results EXCEPT ![i] = map_function(parts[i])]
  /\ UNCHANGED <<text, workers, min_len, use_stopwords, pc, parts, mapCount,
                 collected, mapped_all, shuffled, reduced, normalized,
                 top_n, top, report>>

(* map_function raises (an injected fault): the future gets the exception *)
TaskFail ==
  /\ pc \in {"map", "aborting"}
  /\ \E i \in Running : status' = [status EXCEPT ![i] = "failed"]
  /\ UNCHANGED <<text, workers, min_len, use_stopwords, pc, parts, results,
                 mapCount, collected, mapped_all, shuffled, reduced, normalized,
                 top_n, top, report>>

(* lines 139-140: the loop receives the next result and extends mapped_all *)
Collect ==
  /\ pc = "map"
  /\ \E i \in ReadyInOrder(status, collected) :
       /\ ~ Raises(status, i)
       /\ mapped_all' = mapped_all \o results[i]
       /\ collected' = collected \cup {i}
  /\ UNCHANGED <<text, workers, min_len, use_stopwords, pc, parts, status,
                 results, mapCount, shuffled, reduced, normalized,
                 top_n, top, report>>

(* the next result is an exception: it leaves the loop, the result iterator *)
(* cancels every future that has not started                                *)
CollectError ==
  /\ pc = "map"
  /\ \E i \in ReadyInOrder(status, collected) : Raises(status, i)
  /\ status' = [i \in Chunks |->
                  IF status[i] = "pending" THEN "cancelled" ELSE status[i]]
  /\ pc' = "aborting"
  /\ UNCHANGED <<text, workers, min_len, use_stopwords, parts, results,
                 mapCount, collected, mapped_all, shuffled, reduced, normalized,
                 top_n, top, report>>

(* the loop is exhausted; the with-block ends with shutdown(wait=True) *)
Join ==
  /\ pc = "map"
  /\ collected = Chunks
  /\ Running = {}
  /\ pc' = "shuffle"
  /\ UNCHANGED <<text, workers, min_len, use_stopwords, parts, status, results,
                 mapCount, collected, mapped_all, shuffled, reduced, normalized,
                 top_n, top, report>>

(* shutdown(wait=True) on the error path, then the exception leaves the function *)
JoinError ==
  /\ pc = "aborting"
  /\ Running = {}
  /\ pc' = "raised"
  /\ UNCHANGED <<text, workers, min_len, use_stopwords, parts, status, results,
                 mapCount, collected, mapped_all, shuffled, reduced, normalized,
                 top_n, top, report>>

(* line 143 *)
Shuffle ==
  /\ pc = "shuffle"
  /\ shuffled' = shuffle_function(mapped_all)
  /\ pc' = "reduce"
  /\ UNCHANGED <<text, workers, min_len, use_stopwords, parts, status, results,
                 mapCount, collected, mapped_all, reduced, normalized,
                 top_n, top, report>>

(* line 146 *)
Reduce ==
  /\ pc = "reduce"
  /\ reduced' = reduce_function(shuffled)
  /\ pc' = "normalize"
  /\ UNCHANGED <<text, workers, min_len, use_stopwords, parts, status, results,
                 mapCount, collected, mapped_all, shuffled, normalized,
                 top_n, top, report>>

(* lines 150-159 *)
Normalize ==
  /\ pc = "normalize"
  /\ normalized' = normalize(reduced, min_len, use_stopwords)
  /\ pc' = "returned"
  /\ UNCHANGED <<text, workers, min_len, use_stopwords, parts, status, results,
                 mapCount, collected, mapped_all, shuffled, reduced,
                 top_n, top, report>>

(* visualize_top_words(freq, top_n) on the returned table *)
Visualize ==
  /\ pc = "returned"
  /\ \E n \in 0..MaxTopN :
       /\ top_n' = n
       /\ top' = most_common(normalized, n)
       /\ report' = ReportOf(top')
  /\ pc' = "done"
  /\ UNCHANGED <<text, workers, min_len, use_stopwords, parts, status, results,
                 mapCount, collected, mapped_all, shuffled, reduced, normalized>>

PipeNext ==
  \/ Submit \/ TaskStart \/ TaskFinish \/ Collect \/ Join
  \/ Shuffle \/ Reduce \/ Normalize \/ Visualize

Init == PipeInit /\ SortIdle
Next == PipeNext /\ UNCHANGED sortVars
Spec == Init /\ [][Next]_vars

(* the same program with a mapper that may raise, called with the default *)
(* min_len=1 and use_stopwords=True of its signature (neither is read      *)
(* before the map phase is over)                                           *)
InitFault == Init /\ min_len = 1 /\ use_stopwords = TRUE

NextFault ==
  \/ Next
  \/ TaskFail /\ UNCHANGED sortVars
  \/ CollectError /\ UNCHANGED sortVars
  \/ JoinError /\ UNCHANGED sortVars
SpecFault == InitFault /\ [][NextFault]_vars

(* ---------------- properties of the word-count pipeline ---------------- *)
RECURSIVE Total(_)
Total(d) == IF d = <<>> THEN 0 ELSE Head(d)[2] + Total(Tail(d))

Returned == pc \in {"returned", "done"}
Chunked == pc \notin {"idle", "start"}

(* the sum over reduced of count times the number of clean tokens of the key *)
RECURSIVE TokenMass(_)
TokenMass(d) ==
  IF d = <<>> THEN 0
  ELSE Head(d)[2] * Len(tokenize(Head(d)[1])) + TokenMass(Tail(d))

(* C1 as stated: the counts of the normalized table never sum to more than *)
(* the counts of the merged table.                                         *)
C1_Original == Returned => Total(normalized) <= Total(reduced)

(* C1 amended: the counts of the normalized table sum to at most the sum,  *)
(* over the merged table, of count times the number of clean tokens in the *)
(* key; so they sum to at most the merged counts when no key holds more    *)
(* than one clean token.                                                   *)
C1_Amended ==
  Returned =>
    /\ Total(normalized) <= TokenMass(reduced)
    /\ (\A i \in 1..Len(reduced) : Len(tokenize(reduced[i][1])) <= 1)
         => Total(normalized) <= Total(reduced)

C1_Witness ==
  /\ pc = "returned"
  /\ \A i \in 1..Len(reduced) : Len(tokenize(reduced[i][1])) <= 1
  /\ Total(normalized) > 0
  /\ Total(normalized) < Total(reduced)

(* the end offsets of all chunks but the last *)
Boundaries(ps) ==
  {Len(Concat(SubSeq(ps, 1, j))) : j \in 1..(Len(ps) - 1)}

(* no chunk boundary of chunk_text(t, w) falls inside a word *)
Aligned(t, w) ==
  \A b \in Boundaries(chunk_text(t, w)) :
     \/ b = 0 \/ b >= Len(t)
     \/ t[b] \in Whitespace \/ t[b + 1] \in Whitespace

SameContents(d, e) ==
  {<<d[i][1], d[i][2]>> : i \in 1..Len(d)} = {<<e[i][1], e[i][2]>> : i \in 1..Len(e)}

(* C2: when the chunk boundaries for two worker counts are all adjacent to *)
(* white space, the two runs return tables with the same keys and counts.  *)
C2_WorkerIndependence ==
  pc = "returned" =>
    \A w2 \in 1..MaxWorkers :
       (Aligned(text, workers) /\ Aligned(text, w2))
         => SameContents(normalized,
                         map_reduce_parallel(text, w2, min_len, use_stopwords))

C2_Witness ==
  /\ pc = "returned"
  /\ Len(parts) >= 2
  /\ Len(normalized) >= 2
  /\ Aligned(text, workers)
  /\ \E w2 \in 1..MaxWorkers :
       /\ Aligned(text, w2)
       /\ chunk_text(text, w2) # parts

(* C3 as stated: exactly k chunks when the text has at least k characters, *)
(* never more than k; the first k-1 of length len div k, the last one with *)
(* the rest.                                                               *)
C3_Original ==
  Chunked =>
    LET n == Len(text)
        k == workers
    IN  /\ Len(parts) <= k
        /\ n >= k =>
             /\ Len(parts) = k
             /\ \A j \in 1..(k - 1) : Len(parts[j]) = n \div k
             /\ Len(parts[k]) = n - (k - 1) * (n \div k)

(* C4: the chunks are consecutive slices of the text and their             *)
(* concatenation is the text.                                              *)
C4_ChunksPartitionText ==
  Chunked =>
    /\ Concat(parts) = text
    /\ \A j \in 1..Len(parts) :
         LET off == Len(Concat(SubSeq(parts, 1, j - 1)))
         IN  parts[j] = SubSeq(text, off + 1, off + Len(parts[j]))

C4_Witness ==
  /\ pc = "map"
  /\ Len(parts) > workers
  /\ Len(text) % workers # 0

(* C5: in every interleaving the consumed outputs are those of a prefix of *)
(* the chunks, in chunk order, and the returned table and the top-N are    *)
(* the ones the arguments determine.                                       *)
C5_Deterministic ==
  /\ Chunked =>
       /\ collected = 1..Cardinality(collected)
       /\ mapped_all = MappedInOrder(SubSeq(parts, 1, Cardinality(collected)))
  /\ Returned =>
       normalized = map_reduce_parallel(text, workers, min_len, use_stopwords)
  /\ pc = "done" =>
       top = most_common(
               map_reduce_parallel(text, workers, min_len, use_stopwords), top_n)

(* chunk 3 finished before chunk 2, whose output is not empty *)
C5_Witness ==
  /\ pc = "map"
  /\ Len(parts) >= 3
  /\ collected = {1}
  /\ status[2] = "running"
  /\ status[3] = "done"
  /\ map_function(parts[2]) # <<>>
  /\ results[3] # <<>>

Failed == {i \in Chunks : status[i] = "failed"}

(* C6: once a mapper has failed the run never reaches shuffle, reduce or   *)
(* normalize and returns no table, the failed chunk is not mapped again,   *)
(* and the only way the run ends is with the error raised.                 *)
C6_FailFast ==
  Failed # {} =>
    /\ pc \in {"map", "aborting", "raised"}
    /\ shuffled = <<>> /\ reduced = <<>> /\ normalized = <<>>
    /\ top = <<>> /\ report = "none"
    /\ \A i \in Failed : mapCount[i] = 1
    /\ (~ ENABLED NextFault) => pc = "raised"

(* an earlier mapper succeeded and its output was consumed, a later one    *)
(* failed, and a chunk that had not started was cancelled                  *)
C6_Witness ==
  /\ pc = "raised"
  /\ mapped_all # <<>>
  /\ \E i \in Chunks : status[i] = "done" /\ i \in collected
  /\ \E i \in Chunks : status[i] = "cancelled"

(* C7: the empty text runs to the end, the returned table and the top-N    *)
(* are empty and "no data" is reported.                                    *)
C7_EmptyInput ==
  text = <<>> =>
    /\ pc # "raised"
    /\ pc # "done" => ENABLED Next
    /\ Returned => normalized = <<>>
    /\ pc = "done" => top = <<>> /\ report = "no_data"

C7_Witness ==
  /\ text = <<>> /\ pc = "done" /\ workers >= 2 /\ parts = <<>>
  /\ report = "no_data"

Pos(d, k) == CHOOSE i \in 1..Len(d) : d[i][1] = k

(* C8: the top-N has min(N, number of tokens) entries of the table, counts *)
(* not increasing, no omitted token above an included one, equal counts in *)
(* insertion order; and the example of the specification.                  *)
C8_TopN ==
  pc = "done" =>
    /\ Len(top) = Min(top_n, Len(normalized))
    /\ \A i \in 1..Len(top) : \E j \in 1..Len(normalized) : normalized[j] = top[i]
    /\ \A i, j \in 1..Len(top) :
         i < j => /\ top[i][2] >= top[j][2]
                  /\ top[i][1] # top[j][1]
                  /\ top[i][2] = top[j][2]
                       => Pos(normalized, top[i][1]) < Pos(normalized, top[j][1])
    /\ \A j \in 1..Len(normalized) : \A i \in 1..Len(top) :
         (\A m \in 1..Len(top) : top[m] # normalized[j])
           => /\ normalized[j][2] <= top[i][2]
              /\ normalized[j][2] = top[i][2]
                   => Pos(normalized, top[i][1]) < j
    /\ (text = ExampleText /\ workers = 1 /\ use_stopwords /\ top_n = 2)
         => top = << <<(<<"c","a","t">>), 2>>, <<(<<"s","a","t">>), 1>> >>

(* the first inserted token has the lower count, and a tie is cut by N *)
C8_Witness ==
  /\ pc = "done"
  /\ Len(normalized) >= 2
  /\ top_n = 1
  /\ normalized[1][2] < normalized[2][2]

(* C9: never more than `workers` chunks are being mapped, no chunk is      *)
(* mapped twice, and shuffle and the later steps run only when every chunk *)
(* was mapped once and no mapper is running.                               *)
C9_BoundedMapPhase ==
  /\ Cardinality(Running) <= workers
  /\ \A i \in Chunks : mapCount[i] <= 1
  /\ \A i \in Chunks : status[i] = "pending" <=> mapCount[i] = 0
  /\ pc \in {"shuffle", "reduce", "normalize", "returned", "done"} =>
       \A i \in Chunks : mapCount[i] = 1 /\ status[i] = "done"

(* more chunks than workers: all workers busy while a chunk waits *)
C9_Witness ==
  /\ pc = "map"
  /\ Len(parts) > workers
  /\ Cardinality(Running) = workers
  /\ Pending # {}

(* ---------------- async_file_sorter.py ---------------- *)
(* A source file is [dir, name]: the folder under src it lies in and its   *)
(* file name as a sequence of characters.  Its content is identified with  *)
(* the file itself, so two different source files have different content.  *)
SrcDirs == {"d1", "d2"}
SrcNames == { <<"x", ".", "t", "x", "t">>, <<"x", ".", "T", "X", "T">>, <<"x">> }
SrcUniverse == [dir : SrcDirs, name : SrcNames]

(* Path.suffix: from the last dot on, when that dot is neither the first   *)
(* nor the last character of the name                                      *)
suffix(name) ==
  LET dots == {i \in 2..(Len(name) - 1) : name[i] = "."}
  IN  IF dots = {} THEN <<>>
      ELSE SubSeq(name, CHOOSE i \in dots : \A j \in dots : j <= i, Len(name))

RECURSIVE lstrip(_, _)
lstrip(s, c) == IF s # <<>> /\ Head(s) = c THEN lstrip(Tail(s), c) ELSE s

(* normalized_ext: suffix.lower().lstrip("."), "_no_ext" when that is empty *)
normalized_ext(f) ==
  LET sfx == suffix(f.name)
      ext == lstrip([i \in 1..Len(sfx) |-> lower(sfx[i])], ".")
  IN  IF ext # <<>> THEN ext ELSE <<"_", "n", "o", "_", "e", "x", "t">>

(* dst = out_root / subdir / src.name *)
DstOf(f) == <<normalized_ext(f), f.name>>

EmptyDest == [p \in {} |-> p]
Put(d, p, v) == [q \in (DOMAIN d) \cup {p} |-> IF q = p THEN v ELSE d[q]]

SortInit ==
  /\ files \in {F \in SUBSET SrcUniverse : Cardinality(F) <= MaxFiles}
  /\ unreadable \in SUBSET files
  /\ sem = 0 /\ cpc = EmptyDest /\ dest = EmptyDest /\ dirs = {}
  /\ res = EmptyDest /\ ok = 0 /\ err = 0
  /\ rpc = "start"

pipeAndInput == <<text, workers, min_len, use_stopwords, pc, parts, status,
                results, mapCount, collected, mapped_all, shuffled, reduced,
                normalized, top_n, top, report, files, unreadable>>

(* read_folder lines 96-100: list the files, make the semaphore, one task per file *)
CreateTasks ==
  /\ rpc = "start"
  /\ \E w \in 1..MaxWorkers : sem' = w
  /\ cpc' = [f \in files |-> "wait"]
  /\ res' = [f \in files |-> "pending"]
  /\ rpc' = "gather"
  /\ UNCHANGED <<pipeAndInput, dest, dirs, ok, err>>

(* copy_file line 75: async with sem *)
Acquire(f) ==
  /\ rpc = "gather" /\ cpc[f] = "wait"
  /\ sem > 0
  /\ sem' = sem - 1
  /\ cpc' = [cpc EXCEPT ![f] = "mkdir"]
  /\ UNCHANGED <<pipeAndInput, dest, dirs, res, ok, err, rpc>>

(* line 77: dst_dir.mkdir(parents=True, exist_ok=True) *)
Mkdir(f) ==
  /\ rpc = "gather" /\ cpc[f] = "mkdir"
  /\ dirs' = dirs \cup {normalized_ext(f)}
  /\ cpc' = [cpc EXCEPT ![f] = "copy"]
  /\ UNCHANGED <<pipeAndInput, sem, dest, res, ok, err, rpc>>

(* line 79, first half: copy2 opens the source, then creates or truncates  *)
(* the destination; an unreadable source raises, the semaphore is released *)
(* and the task returns None                                               *)
CopyOpen(f) ==
  /\ rpc = "gather" /\ cpc[f] = "copy"
  /\ IF f \in unreadable
     THEN /\ cpc' = [cpc EXCEPT ![f] = "finished"]
          /\ res' = [res EXCEPT ![f] = "None"]
          /\ sem' = sem + 1
          /\ dest' = dest
     ELSE /\ cpc' = [cpc EXCEPT ![f] = "write"]
          /\ dest' = Put(dest, DstOf(f), [src |-> f, full |-> FALSE])
          /\ UNCHANGED <<res, sem>>
  /\ UNCHANGED <<pipeAndInput, dirs, ok, err, rpc>>

(* line 79, second half, and lines 80-81: the content is written, the      *)
(* semaphore released, (src, dst) returned                                 *)
CopyWrite(f) ==
  /\ rpc = "gather" /\ cpc[f] = "write"
  /\ dest' = Put(dest, DstOf(f), [src |-> f, full |-> TRUE])
  /\ cpc' = [cpc EXCEPT ![f] = "finished"]
  /\ res' = [res EXCEPT ![f] = "copied"]
  /\ sem' = sem + 1
  /\ UNCHANGED <<pipeAndInput, dirs, ok, err, rpc>>

(* lines 102-115: gather returns when every task has; count the results *)
Gather ==
  /\ rpc = "gather"
  /\ \A f \in files : cpc[f] = "finished"
  /\ ok' = Cardinality({f \in files : res[f] = "copied"})
  /\ err' = Cardinality({f \in files : res[f] = "None"})
  /\ rpc' = "returned"
  /\ UNCHANGED <<pipeAndInput, sem, cpc, dest, dirs, res>>

SortNext ==
  \/ CreateTasks
  \/ \E f \in files : Acquire(f)
  \/ \E f \in files : Mkdir(f)
  \/ \E f \in files : CopyOpen(f)
  \/ \E f \in files : CopyWrite(f)
  \/ Gather

InitSorter == PipeIdle /\ SortInit
SpecSorter == InitSorter /\ [][SortNext]_vars

(* C10 as stated: ok + err is the number of files found, every file        *)
(* counted in ok is at out_root/<normalized_ext>/<name> with its own       *)
(* content, and the destination holds ok files.                            *)
C10_Original ==
  rpc = "returned" =>
    /\ ok + err = Cardinality(files)
    /\ \A f \in files :
         res[f] = "copied" =>
           /\ DstOf(f) \in DOMAIN dest
           /\ dest[DstOf(f)] = [src |-> f, full |-> TRUE]
    /\ Cardinality(DOMAIN dest) = ok

====
